---- MODULE Spec2Model ----
(***************************************************************************)
(* Notification delivery engine of the hospital management system:         *)
(* the Notification record and its status methods                          *)
(* (notifications/models.py), the NotificationConsumer websocket session   *)
(* that marks records read and reports the unread count                    *)
(* (notifications/consumers.py), the post_save handlers that create        *)
(* Notification rows (medical_records/signals.py, notifications/signals.py)*)
(* and the views over the alerts.Notification table (alerts/views.py).     *)
(*                                                                         *)
(* Time is counted in minutes.  A record is the database row; a status     *)
(* method called directly is applied to a freshly loaded row and saved at  *)
(* once, a sender worker applies it to the instance it loaded earlier.     *)
(***************************************************************************)
EXTENDS Integers, Sequences, FiniteSets, TLC

\* ---------------------------------------------------------------- bounds
MaxNotifications == 2      \* Notification rows that are ever created
MaxNow == 1                \* the clock runs over 0..MaxNow minutes
MaxRetryCount == 4         \* mark_as_failed is explored while retry_count is below this

\* ------------------------------------------------------ program constants
DefaultMaxRetries == 3     \* max_retries = PositiveIntegerField(default=3)
BackoffMinutes == 5        \* timedelta(minutes=5 * self.retry_count)
NULL == -1                 \* a DateTimeField(null=True) that holds no value

Users == {"u1", "u2"}
Sessions == {"s1"}
\* max_retries is a PositiveIntegerField: 0 is a legal value
MaxRetriesValues == {0, 1, DefaultMaxRetries}
\* error_message arguments a channel sender passes to mark_as_failed
ErrorMessages == {"transient: timeout", "permanent: invalid address"}
\* max_retries of the rows of SpecHub: the first failed attempt is terminal
HubMaxRetriesValues == {1}
\* websocket connections of SpecSessions (channel names)
Connections == {"s1", "s2"}
NoUser == "none"
NoFrame == [type |-> "none"]
\* sender workers, and the state of one that holds no row
Workers == {"w1", "w2"}
Idle == [pc |-> "idle"]

VARIABLES
    notifications,      \* notification_id -> Notification row
    notification_logs,  \* NotificationLog rows, in the order of their creation
    now,                \* timezone.now(), in minutes
    session_user,       \* session -> user_id of its URL route (NoUser: not connected)
    groups,             \* channel layer: group of a user -> sessions added to it
    last_frame,         \* session -> the frame sent to its client most recently
    last,               \* the call that led to this state (history)
    workers,            \* sender worker -> what it holds of the row it works on
    notification_types, \* name -> NotificationType row
    preferences,        \* user -> NotificationPreference row
    type_preferences,   \* <<user, type name>> -> NotificationTypePreference row
    lab_results,        \* result_id -> LabResult row
    accounts,           \* User rows
    alerts              \* pk -> alerts.Notification row (the view layer's table)

\* the tables beside Notification and NotificationLog
store == <<notification_types, preferences, type_preferences, lab_results, accounts,
           alerts>>

vars == <<notifications, notification_logs, now, session_user, groups, last_frame, last,
          workers, store>>

Ids == DOMAIN notifications

\* ------------------------------------------------------------ Notification
\* Field defaults of a new Notification row.
NewNotification(u, mr) ==
    [notification_id   |-> << >>,
     notification_type |-> "",
     channel           |-> "",
     title         |-> "",
     message       |-> "",
     data          |-> << >>,
     recipient     |-> u,
     status        |-> "PENDING",
     sent_at       |-> NULL,
     delivered_at  |-> NULL,
     read_at       |-> NULL,
     retry_count   |-> 0,
     max_retries   |-> mr,
     next_retry_at |-> NULL,
     error_message |-> ""]

\* the notification_id of the k-th row saved: "N" and a fresh uuid4 prefix
NotificationId(k) == <<"N", k>>

\* (mutant) save that draws a new notification_id at every save
save_new_id(r, k) ==
    [r EXCEPT !.notification_id = IF @ = << >> THEN NotificationId(k)
                                  ELSE NotificationId(@[2] + 1)]

\* Notification.save of row r, the k-th row: the id is set at the first save
save(r, k) ==
    IF r.notification_id = << >>
    THEN [r EXCEPT !.notification_id = NotificationId(k)]
    ELSE r

\* (mutant) mark_as_sent that sets the status and leaves sent_at alone
MarkedSentNoStamp(r, t) == [r EXCEPT !.status = "SENT"]

\* Notification.mark_as_sent, on row r at time t
MarkedSent(r, t) == [r EXCEPT !.status = "SENT", !.sent_at = t]

\* (mutant) mark_as_delivered that stamps sent_at as well
MarkedDeliveredAndSent(r, t) ==
    [r EXCEPT !.status = "DELIVERED", !.delivered_at = t, !.sent_at = t]

\* Notification.mark_as_delivered
MarkedDelivered(r, t) == [r EXCEPT !.status = "DELIVERED", !.delivered_at = t]

\* (mutant) mark_as_read that flips a row already READ back to unread
MarkedReadToggle(r, t) ==
    IF r.status = "READ"
    THEN [r EXCEPT !.status = "DELIVERED", !.read_at = NULL]
    ELSE [r EXCEPT !.status = "READ", !.read_at = t]

\* Notification.mark_as_read
MarkedRead(r, t) == [r EXCEPT !.status = "READ", !.read_at = t]

\* (mutant) mark_as_failed that retries while retry_count <= max_retries
MarkedFailedOffByOne(r, t, msg) ==
    LET count == r.retry_count + 1
        failed == [r EXCEPT !.status = "FAILED",
                            !.error_message = msg,
                            !.retry_count = count]
    IN  IF count <= r.max_retries
        THEN [failed EXCEPT !.next_retry_at = t + BackoffMinutes * count,
                            !.status = "PENDING"]
        ELSE failed

\* (mutant) mark_as_failed whose delay does not grow with retry_count
MarkedFailedFlatBackoff(r, t, msg) ==
    LET count == r.retry_count + 1
        failed == [r EXCEPT !.status = "FAILED",
                            !.error_message = msg,
                            !.retry_count = count]
    IN  IF count < r.max_retries
        THEN [failed EXCEPT !.next_retry_at = t + BackoffMinutes,
                            !.status = "PENDING"]
        ELSE failed

\* (mutant) mark_as_failed that computes the delay from retry_count as it was
\* before the increment
MarkedFailedStaleCount(r, t, msg) ==
    LET count == r.retry_count + 1
        failed == [r EXCEPT !.status = "FAILED",
                            !.error_message = msg,
                            !.retry_count = count]
    IN  IF count < r.max_retries
        THEN [failed EXCEPT !.next_retry_at = t + BackoffMinutes * r.retry_count,
                            !.status = "PENDING"]
        ELSE failed

\* Notification.mark_as_failed
MarkedFailed(r, t, msg) ==
    LET count == r.retry_count + 1
        failed == [r EXCEPT !.status = "FAILED",
                            !.error_message = msg,
                            !.retry_count = count]
    IN  IF count < r.max_retries
        THEN [failed EXCEPT !.next_retry_at = t + BackoffMinutes * count,
                            !.status = "PENDING"]
        ELSE failed

\* ------------------------------------------------- NotificationConsumer
GroupName(u) == u      \* self.user_group_name = f'user_{self.user_id}'

\* (mutant) unread count that counts every row of the user
get_unread_count_all_rows(u) ==
    Cardinality({n \in Ids : notifications[n].recipient = u})

\* (mutant) unread count that leaves out READ rows only
get_unread_count_not_read(u) ==
    Cardinality({n \in Ids : /\ notifications[n].recipient = u
                             /\ notifications[n].status # "READ"})

\* NotificationConsumer.get_unread_count for a session whose user_id is u:
\* filter(recipient_id=u, status__in=[PENDING, SENT, DELIVERED]).count()
get_unread_count(u) ==
    Cardinality({n \in Ids : /\ notifications[n].recipient = u
                             /\ notifications[n].status \in {"PENDING", "SENT", "DELIVERED"}})

\* (mutant) the lookup without the recipient filter
Lookup_any_recipient(n, u) ==
    {m \in Ids : notifications[m].notification_id = NotificationId(n)}

\* Notification.objects.get(notification_id=n, recipient_id=u): the rows it matches
\* (empty: Notification.DoesNotExist)
Lookup(n, u) ==
    {m \in Ids : /\ notifications[m].notification_id = NotificationId(n)
                 /\ notifications[m].recipient = u}

\* text messages a client sends over the socket
Messages ==
    {[type |-> "mark_notification_read", notification_id |-> n] : n \in 1..MaxNotifications}
    \cup {[type |-> "get_unread_count"], [type |-> "unknown"], [type |-> "invalid json"]}

\* the same, and a text that is valid JSON but not an object (such as [])
SocketMessages == Messages \cup {[type |-> "not an object"]}

Init ==
    /\ notifications = << >>
    /\ notification_logs = << >>
    /\ now = 0
    /\ session_user = [s \in Sessions |-> NoUser]
    /\ groups = [u \in Users |-> {}]
    /\ last_frame = [s \in Sessions |-> NoFrame]
    /\ last = [op |-> "init"]
    /\ workers = [w \in Workers |-> Idle]
    /\ notification_types = << >>
    /\ preferences = << >>
    /\ type_preferences = << >>
    /\ lab_results = << >>
    /\ accounts = {}
    /\ alerts = << >>

\* what a call on a Notification row leaves alone
RowFrame == UNCHANGED <<notification_logs, now, session_user, groups, last_frame,
                        workers, store>>

\* History of a status method called on row n (via: "direct" or the session).
Called(op, n, via) ==
    last' = [op |-> op, nid |-> n, old |-> notifications[n], at |-> now,
             logs |-> notification_logs, via |-> via]

\* Notification.objects.create(notification_type=..., recipient=u, channel='EMAIL',
\* max_retries=mr, ...)
create(u, mr) ==
    LET n == Cardinality(Ids) + 1
        row == [NewNotification(u, mr) EXCEPT !.notification_type = "Test Notification",
                                              !.channel = "EMAIL",
                                              !.title = "Test Notification",
                                              !.message = "This is a test notification"]
    IN  /\ notifications' = notifications @@ (n :> save(row, n))
        /\ last' = [op |-> "create", nid |-> n]
        /\ RowFrame

mark_as_sent(n) ==
    /\ notifications' = [notifications EXCEPT ![n] = save(MarkedSent(@, now), n)]
    /\ Called("mark_as_sent", n, "direct")
    /\ RowFrame

mark_as_delivered(n) ==
    /\ notifications' = [notifications EXCEPT ![n] = save(MarkedDelivered(@, now), n)]
    /\ Called("mark_as_delivered", n, "direct")
    /\ RowFrame

mark_as_read(n) ==
    /\ notifications' = [notifications EXCEPT ![n] = save(MarkedRead(@, now), n)]
    /\ Called("mark_as_read", n, "direct")
    /\ RowFrame

mark_as_failed(n, msg) ==
    /\ notifications' = [notifications EXCEPT ![n] = save(MarkedFailed(@, now, msg), n)]
    /\ last' = [op |-> "mark_as_failed", nid |-> n, old |-> notifications[n], at |-> now,
                logs |-> notification_logs, via |-> "direct", msg |-> msg]
    /\ RowFrame

\* the clock advances
Tick ==
    /\ now < MaxNow
    /\ now' = now + 1
    /\ last' = [op |-> "tick"]
    /\ UNCHANGED <<notifications, notification_logs, session_user, groups, last_frame,
                   workers, store>>

\* self.send(text_data=...) on session s
Send(s, frame) == last_frame' = [last_frame EXCEPT ![s] = frame]

\* NotificationConsumer.connect with user_id u in the URL route:
\* group_add, accept, then the connection_established frame
connect(s, u) ==
    /\ session_user[s] = NoUser
    /\ session_user' = [session_user EXCEPT ![s] = u]
    /\ groups' = [groups EXCEPT ![GroupName(u)] = @ \cup {s}]
    /\ Send(s, [type |-> "connection_established"])
    /\ last' = [op |-> "connect", session |-> s]
    /\ UNCHANGED <<notifications, notification_logs, now, workers, store>>

\* NotificationConsumer.disconnect: group_discard
disconnect(s) ==
    /\ session_user[s] # NoUser
    /\ groups' = [groups EXCEPT ![GroupName(session_user[s])] = @ \ {s}]
    /\ session_user' = [session_user EXCEPT ![s] = NoUser]
    /\ last' = [op |-> "disconnect", session |-> s]
    /\ UNCHANGED <<notifications, notification_logs, now, last_frame, workers, store>>

\* NotificationConsumer.mark_notification_read(notification_id) of session s
mark_notification_read(s, n) ==
    IF Lookup(n, session_user[s]) # {}
    THEN /\ notifications' = [notifications EXCEPT ![n] = save(MarkedRead(@, now), n)]
         /\ Called("mark_as_read", n, s)
    ELSE /\ UNCHANGED notifications
         /\ last' = [op |-> "receive", session |-> s, found |-> FALSE,
                     notification_id |-> n]

\* NotificationConsumer.receive(text_data) on the connected session s.
\* Only json.JSONDecodeError is caught: text that is valid JSON but not an
\* object raises AttributeError at text_data_json.get, the consumer ends with
\* that exception and its disconnect handler never runs.
receive(s, msg) ==
    /\ session_user[s] # NoUser
    /\ CASE msg.type = "mark_notification_read" ->
              /\ mark_notification_read(s, msg.notification_id)
              /\ UNCHANGED <<last_frame, session_user>>
         [] msg.type = "get_unread_count" ->
              /\ Send(s, [type |-> "unread_count",
                          count |-> get_unread_count(session_user[s])])
              /\ last' = [op |-> "get_unread_count", session |-> s]
              /\ UNCHANGED <<notifications, session_user>>
         [] msg.type = "invalid json" ->
              /\ Send(s, [type |-> "error", message |-> "Invalid JSON format"])
              /\ last' = [op |-> "receive", session |-> s, found |-> FALSE]
              /\ UNCHANGED <<notifications, session_user>>
         [] msg.type = "not an object" ->
              /\ session_user' = [session_user EXCEPT ![s] = NoUser]
              /\ last' = [op |-> "receive_raised", session |-> s]
              /\ UNCHANGED <<notifications, last_frame>>
         [] OTHER ->
              /\ last' = [op |-> "receive", session |-> s, found |-> FALSE]
              /\ UNCHANGED <<notifications, last_frame, session_user>>
    /\ UNCHANGED <<notification_logs, now, groups, workers, store>>

\* NotificationConsumer.connect when self.accept() raises (the client is gone
\* before the handshake completes): group_add has run, the consumer ends with
\* the exception, nothing is sent and disconnect is never called
connect_accept_raises(s, u) ==
    /\ session_user[s] = NoUser
    /\ groups' = [groups EXCEPT ![GroupName(u)] = @ \cup {s}]
    /\ last' = [op |-> "connect_raised", session |-> s]
    /\ UNCHANGED <<notifications, notification_logs, now, session_user, last_frame,
                   workers, store>>

\* (mutant) a group message handed to every open session
Receivers_all_open(u) == {s \in DOMAIN session_user : session_user[s] # NoUser}

\* the consumers that handle a message sent to the group of user u: the
\* members of the group whose consumer is still running
Receivers(u) == {s \in groups[GroupName(u)] : session_user[s] # NoUser}

\* the event of row n sent to the group of its recipient, and
\* NotificationConsumer.notification_message run by every consumer that
\* receives it
push(n) ==
    LET u == notifications[n].recipient
        frame == [type |-> "notification",
                  notification |-> notifications[n].notification_id]
    IN  /\ last_frame' = [s \in DOMAIN last_frame |->
                            IF s \in Receivers(u) THEN frame ELSE last_frame[s]]
        /\ last' = [op |-> "push", nid |-> n, frames |-> last_frame,
                    rows |-> notifications, raised |-> FALSE]
        /\ UNCHANGED <<notifications, notification_logs, now, session_user, groups,
                       workers, store>>

\* ------------------------------------------------------- sender workers
\* instance.save(update_fields=fields): the stored row with the named columns
\* overwritten by those of the instance
Written(stored, instance, fields) ==
    [f \in DOMAIN stored |-> IF f \in fields THEN instance[f] ELSE stored[f]]

\* A worker (a channel sender making an attempt, or a pass of the retry
\* scheduler) selects row n, which is PENDING and due, and loads it.  Nothing
\* is written: the Notification table has no claimed marker and no status
\* method compares the stored row before it writes.
pick(w, n) ==
    /\ workers[w] = Idle
    /\ notifications[n].status = "PENDING"
    /\ notifications[n].next_retry_at <= now
    /\ workers' = [workers EXCEPT ![w] = [pc |-> "sending", nid |-> n,
                                          instance |-> notifications[n]]]
    /\ last' = [op |-> "pick", nid |-> n, worker |-> w]
    /\ UNCHANGED <<notifications, notification_logs, now, session_user, groups,
                   last_frame, store>>

\* the send of worker w went through: mark_as_sent() on the instance it loaded
attempt_sent(w) ==
    LET n == workers[w].nid
    IN  /\ workers[w] # Idle
        /\ notifications' = [notifications EXCEPT ![n] =
              Written(@, MarkedSent(workers[w].instance, now), {"status", "sent_at"})]
        /\ workers' = [workers EXCEPT ![w] = Idle]
        /\ Called("mark_as_sent", n, w)
        /\ UNCHANGED <<notification_logs, now, session_user, groups, last_frame, store>>

\* the send of worker w failed: mark_as_failed(msg) on the instance it loaded
attempt_failed(w, msg) ==
    LET n == workers[w].nid
    IN  /\ workers[w] # Idle
        /\ notifications' = [notifications EXCEPT ![n] =
              Written(@, MarkedFailed(workers[w].instance, now, msg),
                      {"status", "error_message", "retry_count", "next_retry_at"})]
        /\ workers' = [workers EXCEPT ![w] = Idle]
        /\ Called("mark_as_failed", n, w)
        /\ UNCHANGED <<notification_logs, now, session_user, groups, last_frame, store>>

\* the retry times that lie ahead
Ahead == {notifications[n].next_retry_at : n \in Ids} \ (NULL..now)

\* the clock advances to the next retry time
Wait ==
    /\ Ahead # {}
    /\ now' = CHOOSE t \in Ahead : \A x \in Ahead : t <= x
    /\ last' = [op |-> "wait"]
    /\ UNCHANGED <<notifications, notification_logs, session_user, groups, last_frame,
                   workers, store>>

\* ------------------------------------------------- events and dispatch
\* delivery channels of NotificationType and of the preference rows
Channels == {"EMAIL", "SMS", "PUSH", "IN_APP"}
\* the channel flags of a NotificationType: its defaults, and email + in-app only
DefaultTypeChannels == {"EMAIL", "PUSH", "IN_APP"}
TypeChannels == {DefaultTypeChannels, {"EMAIL", "IN_APP"}}
Priorities == {"MEDIUM", "URGENT"}
\* quiet_start_time = '22:00' and quiet_end_time = '08:00', in minutes of the
\* day; minute 0 of the clock is midnight
QuietStartDefault == 22 * 60
QuietEndDefault == 8 * 60
QuietWindows == {<<QuietStartDefault, QuietEndDefault>>,
                 <<QuietEndDefault, QuietStartDefault>>}
\* instance.lab_order.doctor.user of the lab results, and their result_id
Doctor == "u1"
ResultIds == {"LR1"}

\* LabResult.is_critical
is_critical(result) == result.abnormal_flag \in {"CRITICAL_HIGH", "CRITICAL_LOW"}

\* Notification.objects.create(...): the table with the saved row added
Inserted(row) ==
    LET n == Cardinality(Ids) + 1
    IN  notifications @@ (n :> save(row, n))

\* NotificationType.objects.create(name=..., priority=..., <channel flags>)
create_notification_type(name, priority, enabled) ==
    /\ name \notin DOMAIN notification_types
    /\ notification_types' = notification_types @@
          (name :> [name |-> name, priority |-> priority, is_active |-> TRUE,
                    email_enabled |-> "EMAIL" \in enabled,
                    sms_enabled |-> "SMS" \in enabled,
                    push_enabled |-> "PUSH" \in enabled,
                    in_app_enabled |-> "IN_APP" \in enabled])
    /\ last' = [op |-> "create_notification_type", name |-> name]
    /\ UNCHANGED <<notifications, notification_logs, now, session_user, groups,
                   last_frame, workers, preferences, type_preferences, lab_results,
                   accounts, alerts>>

\* NotificationPreference of user u saved with the given quiet hours (the
\* channel toggles keep their default, True)
save_preference(u, quiet, window) ==
    /\ u \in accounts
    /\ preferences' = (u :> [user |-> u, email_enabled |-> TRUE, sms_enabled |-> TRUE,
                             push_enabled |-> TRUE, in_app_enabled |-> TRUE,
                             quiet_hours_enabled |-> quiet,
                             quiet_start_time |-> window[1],
                             quiet_end_time |-> window[2]]) @@ preferences
    /\ last' = [op |-> "save_preference", user |-> u]
    /\ UNCHANGED <<notifications, notification_logs, now, session_user, groups,
                   last_frame, workers, notification_types, type_preferences,
                   lab_results, accounts, alerts>>

\* NotificationTypePreference of user u for the type saved with the given
\* in-app toggle
save_type_preference(u, name, in_app) ==
    /\ u \in accounts
    /\ name \in DOMAIN notification_types
    /\ type_preferences' =
          (<<u, name>> :> [user |-> u, notification_type |-> name,
                           email_enabled |-> TRUE, sms_enabled |-> TRUE,
                           push_enabled |-> TRUE, in_app_enabled |-> in_app])
          @@ type_preferences
    /\ last' = [op |-> "save_type_preference", user |-> u, name |-> name]
    /\ UNCHANGED <<notifications, notification_logs, now, session_user, groups,
                   last_frame, workers, notification_types, preferences, lab_results,
                   accounts, alerts>>

\* (mutant) the handler without its except clause
check_critical_lab_results_uncaught(instance) ==
    IF is_critical(instance) /\ instance.status = "FINAL"
    THEN IF "Critical Lab Result" \in DOMAIN notification_types
         THEN [rows |-> Inserted([NewNotification(instance.doctor, DefaultMaxRetries)
                                    EXCEPT !.notification_type = "Critical Lab Result",
                                           !.title = "Critical Lab Result",
                                           !.message = "Critical result",
                                           !.channel = "IN_APP",
                                           !.data = [lab_result_id |-> instance.result_id,
                                                     abnormal_flag |-> instance.abnormal_flag]]),
               raised |-> FALSE]
         ELSE [rows |-> notifications, raised |-> TRUE]
    ELSE [rows |-> notifications, raised |-> FALSE]

\* post_save handler of LabResult: the Notification table it leaves and
\* whether it raises.  NotificationType.DoesNotExist is caught and passed.
check_critical_lab_results(instance) ==
    IF is_critical(instance) /\ instance.status = "FINAL"
    THEN IF "Critical Lab Result" \in DOMAIN notification_types
         THEN [rows |-> Inserted([NewNotification(instance.doctor, DefaultMaxRetries)
                                    EXCEPT !.notification_type = "Critical Lab Result",
                                           !.title = "Critical Lab Result",
                                           !.message = "Critical result",
                                           !.channel = "IN_APP",
                                           !.data = [lab_result_id |-> instance.result_id,
                                                     abnormal_flag |-> instance.abnormal_flag]]),
               raised |-> FALSE]
         ELSE [rows |-> notifications, raised |-> FALSE]
    ELSE [rows |-> notifications, raised |-> FALSE]

\* a LabResult ordered by Doctor is saved (created or saved again), and its
\* post_save handler runs
save_lab_result(id, flag, status) ==
    LET instance == [result_id |-> id, abnormal_flag |-> flag, status |-> status,
                     doctor |-> Doctor]
        out == check_critical_lab_results(instance)
    IN  /\ Doctor \in accounts
        /\ Cardinality(DOMAIN out.rows) <= MaxNotifications
        /\ lab_results' = (id :> instance) @@ lab_results
        /\ notifications' = out.rows
        /\ last' = [op |-> "save_lab_result", id |-> id, rows |-> notifications,
                    raised |-> out.raised]
        /\ UNCHANGED <<notification_logs, now, session_user, groups, last_frame,
                       workers, notification_types, preferences, type_preferences,
                       accounts, alerts>>

\* post_save handler of User for a created user.  get_or_create(name="Welcome",
\* defaults={..., 'is_system_generated': True}) returns the type when it
\* exists; when it does not, the defaults name a field NotificationType does
\* not have and FieldError is raised before any row is written.  except
\* Exception: pass swallows it.
create_welcome_notification(u) ==
    IF "Welcome" \in DOMAIN notification_types
    THEN [rows |-> Inserted([NewNotification(u, DefaultMaxRetries)
                               EXCEPT !.notification_type = "Welcome",
                                      !.title = "Welcome to Premium HMS",
                                      !.message = "Welcome",
                                      !.channel = "IN_APP"]),
          raised |-> FALSE]
    ELSE [rows |-> notifications, raised |-> FALSE]

\* User u is created, and the post_save handler runs
create_user(u) ==
    LET out == create_welcome_notification(u)
    IN  /\ u \notin accounts
        /\ Cardinality(DOMAIN out.rows) <= MaxNotifications
        /\ accounts' = accounts \cup {u}
        /\ notifications' = out.rows
        /\ last' = [op |-> "create_user", user |-> u, rows |-> notifications,
                    raised |-> out.raised]
        /\ UNCHANGED <<notification_logs, now, session_user, groups, last_frame,
                       workers, notification_types, preferences, type_preferences,
                       lab_results, alerts>>

\* an existing User u is saved again: the post_save handler runs with
\* created = False and does nothing
save_user(u) ==
    /\ u \in accounts
    /\ last' = [op |-> "save_user", user |-> u, rows |-> notifications, raised |-> FALSE]
    /\ UNCHANGED <<notifications, notification_logs, now, session_user, groups,
                   last_frame, workers, store>>

\* ------------------------------------------- alerts views (view layer)
\* Field defaults of a new alerts.Notification row sent by user to recipient
NewAlert(user, recipient) ==
    [recipient |-> recipient, sender |-> user, title |-> "Alert", message |-> "Alert",
     is_read |-> FALSE, read_at |-> NULL]

Pks == DOMAIN alerts

\* what a view leaves alone
ViewFrame == UNCHANGED <<notifications, notification_logs, now, session_user, groups,
                         last_frame, workers, notification_types, preferences,
                         type_preferences, lab_results, accounts>>

\* history of a request of the logged-in user
Requested(op, user, pk, code) ==
    last' = [op |-> op, user |-> user, pk |-> pk, old |-> alerts, at |-> now,
             code |-> code]

\* NotificationCreateView.form_valid: the logged-in user sends an alert
form_valid(user, recipient) ==
    LET pk == Cardinality(Pks) + 1
    IN  /\ alerts' = alerts @@ (pk :> NewAlert(user, recipient))
        /\ Requested("form_valid", user, pk, 302)
        /\ ViewFrame

\* NotificationDetailView.get_object of an existing pk: the object is looked
\* up in Notification.objects.all() and marked read when it is unread
get_object(user, pk) ==
    /\ alerts' = IF ~alerts[pk].is_read
                 THEN [alerts EXCEPT ![pk].is_read = TRUE, ![pk].read_at = now]
                 ELSE alerts
    /\ Requested("get_object", user, pk, 200)
    /\ ViewFrame

\* MarkNotificationReadView.post:
\* get_object_or_404(Notification, pk=pk, recipient=request.user)
MarkNotificationReadView_post(user, pk) ==
    IF pk \in Pks /\ alerts[pk].recipient = user
    THEN /\ alerts' = [alerts EXCEPT ![pk].is_read = TRUE, ![pk].read_at = now]
         /\ Requested("MarkNotificationReadView_post", user, pk, 200)
         /\ ViewFrame
    ELSE /\ UNCHANGED alerts
         /\ Requested("MarkNotificationReadView_post", user, pk, 404)
         /\ ViewFrame

\* (mutant) the update without the recipient filter
MarkedAllReadOfEveryone(user, t) ==
    [pk \in Pks |-> IF ~alerts[pk].is_read
                    THEN [alerts[pk] EXCEPT !.is_read = TRUE, !.read_at = t]
                    ELSE alerts[pk]]

\* filter(recipient=user, is_read=False).update(is_read=True, read_at=t)
MarkedAllRead(user, t) ==
    [pk \in Pks |-> IF alerts[pk].recipient = user /\ ~alerts[pk].is_read
                    THEN [alerts[pk] EXCEPT !.is_read = TRUE, !.read_at = t]
                    ELSE alerts[pk]]

\* MarkAllReadView.post
MarkAllReadView_post(user) ==
    /\ alerts' = MarkedAllRead(user, now)
    /\ Requested("MarkAllReadView_post", user, 0, 200)
    /\ ViewFrame

\* (mutant) the count without the is_read filter
unread_count_all(user) == Cardinality({pk \in Pks : alerts[pk].recipient = user})

\* filter(recipient=user, is_read=False).count()
unread_count(user) ==
    Cardinality({pk \in Pks : alerts[pk].recipient = user /\ alerts[pk].is_read = FALSE})

\* UnreadCountAPIView.get
UnreadCountAPIView_get(user) ==
    /\ last' = [op |-> "UnreadCountAPIView_get", user |-> user, pk |-> 0, old |-> alerts,
                at |-> now, code |-> 200, unread_count |-> unread_count(user)]
    /\ UNCHANGED alerts
    /\ ViewFrame

\* ---------------------------------------------------------- specifications
\* Spec: the whole life of one Notification row, its status methods called in
\* any order by any caller, while the clock runs.  (Each status method reads
\* and writes its own row only.)
Next ==
    \/ \E u \in Users, mr \in MaxRetriesValues : Ids = {} /\ create(u, mr)
    \/ \E n \in Ids : mark_as_sent(n)
    \/ \E n \in Ids : mark_as_delivered(n)
    \/ \E n \in Ids : mark_as_read(n)
    \/ \E n \in Ids, msg \in ErrorMessages :
          notifications[n].retry_count < MaxRetryCount /\ mark_as_failed(n, msg)
    \/ Tick

Spec == Init /\ [][Next]_vars

\* SpecHub: several rows of several users and a websocket session, at one
\* instant of the clock.  The channel sender walks a row forward from PENDING
\* (an attempt is made on a PENDING row and is either sent or failed, a SENT
\* row is delivered); mark_as_read is called on any row, directly or by a
\* session message.
NextHub ==
    \/ \E u \in Users, mr \in HubMaxRetriesValues :
          Cardinality(Ids) < MaxNotifications /\ create(u, mr)
    \/ \E n \in Ids : notifications[n].status = "PENDING" /\ mark_as_sent(n)
    \/ \E n \in Ids : notifications[n].status = "SENT" /\ mark_as_delivered(n)
    \/ \E n \in Ids : mark_as_read(n)
    \/ \E n \in Ids : notifications[n].status = "PENDING"
                      /\ mark_as_failed(n, "transient: timeout")
    \/ \E s \in Sessions, u \in Users : connect(s, u)
    \/ \E s \in Sessions : disconnect(s)
    \/ \E s \in Sessions, msg \in Messages : receive(s, msg)

SpecHub == Init /\ [][NextHub]_vars

\* SpecSessions: websocket connections that come and go while rows are
\* created and their events pushed.  A connection is made once: its channel
\* name is never used again after it has ended.
InitSessions ==
    /\ notifications = << >>
    /\ notification_logs = << >>
    /\ now = 0
    /\ session_user = [s \in Connections |-> NoUser]
    /\ groups = [u \in Users |-> {}]
    /\ last_frame = [s \in Connections |-> NoFrame]
    /\ last = [op |-> "init"]
    /\ workers = [w \in Workers |-> Idle]
    /\ notification_types = << >>
    /\ preferences = << >>
    /\ type_preferences = << >>
    /\ lab_results = << >>
    /\ accounts = {}
    /\ alerts = << >>

\* connection s has not been made yet
Fresh(s) ==
    /\ session_user[s] = NoUser
    /\ last_frame[s] = NoFrame
    /\ \A u \in Users : s \notin groups[u]

NextSessions ==
    \/ \E u \in Users, mr \in HubMaxRetriesValues :
          Cardinality(Ids) < MaxNotifications /\ create(u, mr)
    \/ \E s \in Connections, u \in Users : Fresh(s) /\ connect(s, u)
    \/ \E s \in Connections, u \in Users : Fresh(s) /\ connect_accept_raises(s, u)
    \/ \E s \in Connections : disconnect(s)
    \/ \E s \in Connections, msg \in SocketMessages : receive(s, msg)
    \/ \E n \in Ids : push(n)

SpecSessions == InitSessions /\ [][NextSessions]_vars

\* SpecWorkers: one row, the sender workers that attempt it, first and on
\* retry, and its recipient reading it, while the clock moves from one retry
\* time to the next.
NextWorkers ==
    \/ \E u \in Users, mr \in MaxRetriesValues : Ids = {} /\ create(u, mr)
    \/ \E w \in Workers, n \in Ids : pick(w, n)
    \/ \E w \in Workers : attempt_sent(w)
    \/ \E w \in Workers, msg \in ErrorMessages : attempt_failed(w, msg)
    \/ \E n \in Ids : mark_as_read(n)
    \/ Wait

SpecWorkers == Init /\ [][NextWorkers]_vars

\* SpecDispatch: the domain events that create Notification rows (a user is
\* created, a lab result is saved), with the notification types and the
\* preferences of the ordering doctor set up in any order around them.
NextDispatch ==
    \/ \E priority \in Priorities, enabled \in TypeChannels :
          create_notification_type("Critical Lab Result", priority, enabled)
    \/ create_notification_type("Welcome", "LOW", DefaultTypeChannels)
    \/ \E quiet \in BOOLEAN, window \in QuietWindows :
          save_preference(Doctor, quiet, window)
    \/ \E in_app \in BOOLEAN :
          save_type_preference(Doctor, "Critical Lab Result", in_app)
    \/ \E id \in ResultIds, flag \in {"NORMAL", "CRITICAL_HIGH"},
          status \in {"PENDING", "FINAL"} : save_lab_result(id, flag, status)
    \/ \E u \in Users : create_user(u)
    \/ \E u \in Users : save_user(u)

SpecDispatch == Init /\ [][NextDispatch]_vars

\* SpecAlerts: the alerts views requested by logged-in users in any order,
\* while the clock runs.
NextAlerts ==
    \/ \E user \in Users, recipient \in Users :
          Cardinality(Pks) < MaxNotifications /\ form_valid(user, recipient)
    \/ \E user \in Users, pk \in Pks : get_object(user, pk)
    \/ \E user \in Users, pk \in 1..MaxNotifications : MarkNotificationReadView_post(user, pk)
    \/ \E user \in Users : MarkAllReadView_post(user)
    \/ \E user \in Users : UnreadCountAPIView_get(user)
    \/ Tick

SpecAlerts == Init /\ [][NextAlerts]_vars

\* ------------------------------------------------------------- properties
\* place of a status on the forward chain PENDING -> SENT -> DELIVERED -> READ
Rank(status) ==
    CASE status = "PENDING" -> 0
      [] status = "SENT" -> 1
      [] status = "DELIVERED" -> 2
      [] status = "READ" -> 3

ForwardChain == {"PENDING", "SENT", "DELIVERED", "READ"}

\* the state is the one a status method has just produced
AfterCall(op) == last.op = op
\* the row the last call was made on, as it is now
Row == notifications[last.nid]

\* C1: every Notification row has retry_count <= max_retries, in every
\* reachable state (any max_retries >= 0, mark_as_failed on a terminally
\* FAILED row included).
C1_RetryCountWithinMax ==
    \A n \in Ids : notifications[n].retry_count <= notifications[n].max_retries

\* C2: the status of a row never moves from a later status of the chain
\* PENDING -> SENT -> DELIVERED -> READ to an earlier one; the only backward
\* step is FAILED to PENDING.
C2_StatusMovesForward ==
    [][\A n \in Ids :
         LET old == notifications[n].status
             new == notifications'[n].status
         IN  (old \in ForwardChain /\ new \in ForwardChain) => Rank(new) >= Rank(old)]_vars

\* C3: once the status of a row is READ, no later operation changes its
\* status, sent_at, delivered_at, read_at, retry_count, next_retry_at or
\* error_message.
C3_ReadIsImmutable ==
    [][\A n \in Ids :
         notifications[n].status = "READ" => notifications'[n] = notifications[n]]_vars

\* C4: mark_as_read called on a row that is already READ (directly or by the
\* session message mark_notification_read) leaves the row in status READ,
\* with every field but read_at as the first call left it, and appends no
\* NotificationLog row.
C4_MarkAsReadIdempotent ==
    (AfterCall("mark_as_read") /\ last.old.status = "READ") =>
        /\ Row.status = "READ"
        /\ Row = [last.old EXCEPT !.read_at = Row.read_at]
        /\ Row.read_at # NULL
        /\ notification_logs = last.logs

\* C4 witness: a session marks one of its user's rows read a second time
C4_Witness ==
    /\ AfterCall("mark_as_read")
    /\ last.via \in Sessions
    /\ last.old.status = "READ"
    /\ Row.status = "READ"

\* a row on which no attempt has succeeded: it was never sent, delivered or read
OnlyFailed(r) == r.sent_at = NULL /\ r.delivered_at = NULL /\ r.read_at = NULL

\* C5: for a row whose every attempt fails (retry_count counts the
\* mark_as_failed calls), the retry loop ends: the row is set back to PENDING
\* only while retry_count < max_retries, it is FAILED once max_retries calls
\* were made, and a further mark_as_failed call leaves it FAILED.
C5_RetryLoopTerminates ==
    /\ [](\A n \in Ids :
            LET r == notifications[n]
            IN  (OnlyFailed(r) /\ r.retry_count >= 1) =>
                    /\ r.retry_count >= r.max_retries => r.status = "FAILED"
                    /\ r.status = "PENDING" => r.retry_count < r.max_retries)
    /\ [][\A n \in Ids :
            LET r == notifications[n]
                q == notifications'[n]
            IN  (q.retry_count > r.retry_count /\ r.retry_count >= r.max_retries)
                    => q.status = "FAILED"]_vars

\* C5 witness: max_retries = 3, a fourth failure, the row is still FAILED
C5_Witness ==
    /\ AfterCall("mark_as_failed")
    /\ OnlyFailed(Row)
    /\ Row.max_retries = 3
    /\ last.old.status = "FAILED"
    /\ Row.retry_count = 4
    /\ Row.status = "FAILED"

\* rows of user u that are unread, counted as the claim words it: the rows
\* of u, without those in status READ or FAILED
UnreadOf(u) ==
    {n \in Ids : notifications[n].recipient = u}
        \ {n \in Ids : notifications[n].status \in {"READ", "FAILED"}}

\* C6: the unread_count frame a session of user u gets holds the number of
\* rows whose recipient is u and whose status is PENDING, SENT or DELIVERED.
C6_UnreadCount ==
    AfterCall("get_unread_count") =>
        LET s == last.session
        IN  /\ last_frame[s].type = "unread_count"
            /\ last_frame[s].count = Cardinality(UnreadOf(session_user[s]))
            /\ \A n \in UnreadOf(session_user[s]) :
                  notifications[n].status \in {"PENDING", "SENT", "DELIVERED"}

\* C6 witness: the count is 1 while the user also has a FAILED row
C6_Witness ==
    /\ AfterCall("get_unread_count")
    /\ last_frame[last.session].count = 1
    /\ \E n \in Ids, m \in Ids :
          /\ notifications[n].recipient = session_user[last.session]
          /\ notifications[n].status = "DELIVERED"
          /\ notifications[m].recipient = session_user[last.session]
          /\ notifications[m].status = "FAILED"

\* C7: next_retry_at is non-null only if status = PENDING and retry_count > 0.
C7_NextRetryOnlyWhilePending ==
    \A n \in Ids :
        notifications[n].next_retry_at # NULL =>
            (notifications[n].status = "PENDING" /\ notifications[n].retry_count > 0)

\* C8: mark_as_failed on a row with retry_count = k sets retry_count to k + 1
\* and stores the error message; below the cap the status is PENDING and
\* next_retry_at = now + 5 minutes * (k + 1); at the cap the status is FAILED
\* and the call schedules nothing (next_retry_at is left as it was).
C8_TransientFailure ==
    AfterCall("mark_as_failed") =>
        LET k == last.old.retry_count
        IN  /\ Row.retry_count = k + 1
            /\ Row.error_message = last.msg
            /\ (k + 1 < last.old.max_retries) =>
                  /\ Row.status = "PENDING"
                  /\ Row.next_retry_at = last.at + 5 * (k + 1)
            /\ (k + 1 >= last.old.max_retries) =>
                  /\ Row.status = "FAILED"
                  /\ Row.next_retry_at = last.old.next_retry_at

\* C8 witness: the second failure, at minute 1, of a row with max_retries = 3
C8_Witness ==
    /\ AfterCall("mark_as_failed")
    /\ last.at = 1
    /\ last.old.retry_count = 1
    /\ Row.retry_count = 2
    /\ Row.status = "PENDING"
    /\ Row.next_retry_at = 11
    /\ Row.error_message = "transient: timeout"

\* C9 (as claimed): with max_retries = 3, a row whose attempts keep failing is
\* rescheduled at each of its failures 1, 2 and 3, with delays of 5, 10 and 15
\* minutes.
C9_ThreeRetries ==
    (/\ AfterCall("mark_as_failed")
     /\ OnlyFailed(Row)
     /\ Row.max_retries = 3
     /\ Row.retry_count \in 1..3) =>
        /\ Row.status = "PENDING"
        /\ Row.next_retry_at = last.at + 5 * Row.retry_count

\* C9 (amended): with max_retries = 3, a row whose attempts keep failing is
\* rescheduled twice, with delays of 5 and 10 minutes at failures 1 and 2; the
\* third failure makes it FAILED and schedules no retry of 15 minutes.
C9_TwoRetries ==
    (/\ AfterCall("mark_as_failed")
     /\ OnlyFailed(Row)
     /\ Row.max_retries = 3) =>
        /\ Row.retry_count \in 1..2 =>
              /\ Row.status = "PENDING"
              /\ Row.next_retry_at = last.at + 5 * Row.retry_count
        /\ Row.retry_count >= 3 =>
              /\ Row.status = "FAILED"
              /\ Row.next_retry_at = last.old.next_retry_at
              /\ Row.next_retry_at - last.at <= 10

\* C9 witness: the third failure of a row with max_retries = 3
C9_Witness ==
    /\ AfterCall("mark_as_failed")
    /\ OnlyFailed(Row)
    /\ Row.max_retries = 3
    /\ Row.retry_count = 3
    /\ last.old.status = "PENDING"
    /\ last.old.next_retry_at = 10
    /\ Row.status = "FAILED"

\* C10: a permanent failure leaves the row FAILED with retry_count equal to
\* max_retries, whatever retry_count was before, and not set back to PENDING.
C10_PermanentFailure ==
    (AfterCall("mark_as_failed") /\ last.msg = "permanent: invalid address") =>
        /\ Row.status = "FAILED"
        /\ Row.retry_count = Row.max_retries

\* C11: a row in status FAILED with retry_count = max_retries is terminal:
\* no later operation changes its status.
C11_FailedAtCapIsTerminal ==
    [][\A n \in Ids :
         (/\ notifications[n].status = "FAILED"
          /\ notifications[n].retry_count = notifications[n].max_retries)
            => notifications'[n].status = "FAILED"]_vars

\* the NotificationLog rows written for row n
LogsOf(n) == {i \in 1..Len(notification_logs) : notification_logs[i].notification = n}

\* C12: every status transition of a row (its creation included) appends
\* exactly one NotificationLog row for it, and no NotificationLog row is
\* changed or removed afterwards.
C12_EveryTransitionLogged ==
    /\ AfterCall("create") => Cardinality(LogsOf(last.nid)) = 1
    /\ last.op \in {"mark_as_sent", "mark_as_delivered", "mark_as_read", "mark_as_failed"} =>
          /\ Len(notification_logs) = Len(last.logs) + 1
          /\ SubSeq(notification_logs, 1, Len(last.logs)) = last.logs
          /\ notification_logs[Len(notification_logs)].notification = last.nid

\* C13: a row is created PENDING with retry_count 0 and no sent_at,
\* delivered_at, read_at or next_retry_at; its first save gives it a
\* notification_id that starts with "N", and no later save or status
\* transition changes that id.
C13_CreatedPendingWithStableId ==
    /\ [](AfterCall("create") =>
            /\ Row.status = "PENDING"
            /\ Row.retry_count = 0
            /\ Row.sent_at = NULL /\ Row.delivered_at = NULL
            /\ Row.read_at = NULL /\ Row.next_retry_at = NULL)
    /\ [](\A n \in Ids : /\ notifications[n].notification_id # << >>
                         /\ Head(notifications[n].notification_id) = "N")
    /\ [][\A n \in Ids :
            notifications'[n].notification_id = notifications[n].notification_id]_vars

\* C13 witness: a row that was created, failed once and is then sent still
\* has the id of its first save
C13_Witness ==
    /\ AfterCall("mark_as_sent")
    /\ last.old.retry_count = 1
    /\ Head(last.old.notification_id) = "N"
    /\ Row.notification_id = last.old.notification_id

\* C14: mark_as_sent leaves status SENT and sent_at set, mark_as_delivered
\* leaves DELIVERED and delivered_at set, mark_as_read leaves READ and read_at
\* set; in every state SENT implies sent_at, DELIVERED implies delivered_at
\* and READ implies read_at.
C14_StatusHasItsTimestamp ==
    /\ AfterCall("mark_as_sent") => (Row.status = "SENT" /\ Row.sent_at = last.at)
    /\ AfterCall("mark_as_delivered") =>
          (Row.status = "DELIVERED" /\ Row.delivered_at = last.at)
    /\ AfterCall("mark_as_read") => (Row.status = "READ" /\ Row.read_at = last.at)
    /\ \A n \in Ids :
          /\ notifications[n].status = "SENT" => notifications[n].sent_at # NULL
          /\ notifications[n].status = "DELIVERED" => notifications[n].delivered_at # NULL
          /\ notifications[n].status = "READ" => notifications[n].read_at # NULL

\* C14 witness: a row sent at minute 0 and delivered at minute 1
C14_Witness ==
    /\ AfterCall("mark_as_delivered")
    /\ Row.status = "DELIVERED"
    /\ Row.sent_at = 0
    /\ Row.delivered_at = 1
    /\ Row.read_at = NULL

\* connection s has ended: it was made and its consumer no longer runs
Closed(s) == session_user[s] = NoUser /\ ~Fresh(s)

\* C15: a session is a member of its user's group from connect until
\* disconnect, and once it has ended (gracefully or not, a connection that
\* fails between group_add and accept included) it is a member of no group.
C15_NoClosedSessionRegistered ==
    \A s \in DOMAIN session_user :
        /\ session_user[s] # NoUser => s \in groups[GroupName(session_user[s])]
        /\ session_user[s] = NoUser => \A u \in Users : s \notin groups[GroupName(u)]

\* C16: an event pushed for user u arrives as a notification frame at every
\* open session registered for u and at no session of another user; when u
\* has no open session the push changes no frame, raises nothing and leaves
\* the Notification rows as they were.
C16_PushReachesOwnSessions ==
    AfterCall("push") =>
        LET u == last.rows[last.nid].recipient
        IN  /\ \A s \in DOMAIN session_user :
                 IF session_user[s] = u
                 THEN last_frame[s] = [type |-> "notification",
                                       notification |-> last.rows[last.nid].notification_id]
                 ELSE last_frame[s] = last.frames[s]
            /\ ~last.raised
            /\ notifications = last.rows

\* C16 witness: the event of a row of u1 is pushed while a session of u1 and
\* a session of u2 are open; the first gets the frame, the second keeps its own
C16_Witness ==
    /\ AfterCall("push")
    /\ notifications[last.nid].recipient = "u1"
    /\ \E s, t \in DOMAIN session_user :
          /\ session_user[s] = "u1" /\ last_frame[s].type = "notification"
          /\ session_user[t] = "u2" /\ last_frame[t].type = "connection_established"

\* C16 witness of the no-op: a push for a user with no open session
C16_WitnessNoSession ==
    /\ AfterCall("push")
    /\ \A s \in DOMAIN session_user : session_user[s] # notifications[last.nid].recipient
    /\ \E s \in DOMAIN session_user : session_user[s] # NoUser

C17_NoDoubleRetry ==
    \A w1, w2 \in Workers :
        (/\ w1 # w2
         /\ workers[w1] # Idle /\ workers[w1].instance.retry_count > 0
         /\ workers[w2] # Idle /\ workers[w2].instance.retry_count > 0)
            => workers[w1].nid # workers[w2].nid

\* rows added by the last call
NewRows == {n \in Ids : n \notin DOMAIN last.rows}

\* the last call saved a critical FINAL lab result while its type exists:
\* the event "Critical Lab Result" was dispatched to the ordering doctor
Dispatched ==
    /\ AfterCall("save_lab_result")
    /\ is_critical(lab_results[last.id])
    /\ lab_results[last.id].status = "FINAL"
    /\ "Critical Lab Result" \in DOMAIN notification_types

\* the channels the type of the event is enabled for
TypeEnabled(name) ==
    {c \in Channels :
        \/ c = "EMAIL" /\ notification_types[name].email_enabled
        \/ c = "SMS" /\ notification_types[name].sms_enabled
        \/ c = "PUSH" /\ notification_types[name].push_enabled
        \/ c = "IN_APP" /\ notification_types[name].in_app_enabled}

\* user u has quiet hours enabled and the time of day t lies in the window
QuietAt(u, t) ==
    /\ u \in DOMAIN preferences
    /\ preferences[u].quiet_hours_enabled
    /\ LET start == preferences[u].quiet_start_time
           end == preferences[u].quiet_end_time
           tod == t % (24 * 60)
       IN  IF start <= end THEN start <= tod /\ tod < end
                           ELSE tod >= start \/ tod < end

\* user u has switched in-app off for the type
InAppOff(u, name) ==
    /\ <<u, name>> \in DOMAIN type_preferences
    /\ ~type_preferences[<<u, name>>].in_app_enabled

\* C18: an event of a type with channels {email, in-app}, dispatched to a
\* user who has both enabled, creates exactly 2 rows, one per channel; when
\* the user has in-app disabled for the type it creates exactly 1 row, email.
C18_OneRecordPerChannel ==
    (/\ Dispatched
     /\ TypeEnabled("Critical Lab Result") = {"EMAIL", "IN_APP"}
     /\ ~QuietAt(Doctor, now)) =>
        IF InAppOff(Doctor, "Critical Lab Result")
        THEN /\ Cardinality(NewRows) = 1
             /\ \A n \in NewRows : notifications[n].channel = "EMAIL"
        ELSE /\ Cardinality(NewRows) = 2
             /\ {notifications[n].channel : n \in NewRows} = {"EMAIL", "IN_APP"}

\* C19: while the recipient's quiet hours are enabled and the time is inside
\* the window, an event of a MEDIUM type creates no row, and the same event
\* of an URGENT type creates its rows.
C19_QuietHoursSuppress ==
    (Dispatched /\ QuietAt(Doctor, now)) =>
        /\ notification_types["Critical Lab Result"].priority = "MEDIUM" => NewRows = {}
        /\ notification_types["Critical Lab Result"].priority = "URGENT" => NewRows # {}

\* C20: an event whose notification type does not exist is not fatal: the
\* save that triggers it completes, nothing is raised to the caller and no
\* Notification row is added or changed.
C20_UnknownTypeNotFatal ==
    /\ (/\ AfterCall("save_lab_result")
        /\ "Critical Lab Result" \notin DOMAIN notification_types) =>
          /\ ~last.raised
          /\ last.id \in DOMAIN lab_results
          /\ notifications = last.rows
    /\ (/\ AfterCall("create_user")
        /\ "Welcome" \notin DOMAIN notification_types) =>
          /\ ~last.raised
          /\ last.user \in accounts
          /\ notifications = last.rows

\* C20 witness: a critical FINAL lab result is saved while the type
\* "Critical Lab Result" does not exist and a row of another type does
C20_Witness ==
    /\ AfterCall("save_lab_result")
    /\ is_critical(lab_results[last.id])
    /\ lab_results[last.id].status = "FINAL"
    /\ "Critical Lab Result" \notin DOMAIN notification_types
    /\ Ids # {}
    /\ ~last.raised

\* C21: creating a user creates exactly one welcome Notification for that
\* user (type Welcome, channel IN_APP, status PENDING), also when the Welcome
\* type does not exist beforehand and the handler has to create it; saving
\* an existing user creates none.
C21_OneWelcomePerNewUser ==
    /\ AfterCall("create_user") =>
          /\ Cardinality(NewRows) = 1
          /\ \A n \in NewRows : /\ notifications[n].recipient = last.user
                                /\ notifications[n].notification_type = "Welcome"
                                /\ notifications[n].channel = "IN_APP"
                                /\ notifications[n].status = "PENDING"
          /\ "Welcome" \in DOMAIN notification_types
    /\ AfterCall("save_user") => notifications = last.rows

\* lab results whose event has gone out: critical and FINAL while the type exists
Notified ==
    {id \in DOMAIN lab_results :
        /\ is_critical(lab_results[id])
        /\ lab_results[id].status = "FINAL"
        /\ "Critical Lab Result" \in DOMAIN notification_types}

\* the Critical Lab Result rows of lab result id on channel c for the doctor
RowsOfResult(id, c) ==
    {n \in Ids : /\ notifications[n].notification_type = "Critical Lab Result"
                 /\ notifications[n].recipient = Doctor
                 /\ notifications[n].channel = c
                 /\ notifications[n].data.lab_result_id = id}

\* C22: a Notification is created once per (event, channel): a critical
\* FINAL lab result has exactly one Critical Lab Result row per channel it
\* went out on for the ordering doctor, however often it is saved again.
C22_OncePerEventAndChannel ==
    /\ \A id \in ResultIds, c \in Channels : Cardinality(RowsOfResult(id, c)) <= 1
    /\ Dispatched => \E c \in Channels : Cardinality(RowsOfResult(last.id, c)) = 1

\* the unread alerts of user u
UnreadAlerts(u) == {pk \in Pks : alerts[pk].recipient = u /\ ~alerts[pk].is_read}

\* C23: in the view layer the unread count returned for user u is the number
\* of u's notifications with is_read = False; after u's mark-all-read it is
\* 0, and that mark-all-read changes no notification of another recipient.
C23_ViewUnreadCount ==
    /\ AfterCall("UnreadCountAPIView_get") =>
          last.unread_count = Cardinality(UnreadAlerts(last.user))
    /\ AfterCall("MarkAllReadView_post") =>
          /\ UnreadAlerts(last.user) = {}
          /\ unread_count(last.user) = 0
          /\ \A pk \in Pks : alerts[pk].recipient # last.user => alerts[pk] = last.old[pk]

\* C23 witness: u1 marks all read while u1 has unread alerts and u2 has one too
C23_Witness ==
    /\ AfterCall("MarkAllReadView_post")
    /\ last.user = "u1"
    /\ \E pk \in Pks : last.old[pk].recipient = "u1" /\ ~last.old[pk].is_read
    /\ \E pk \in Pks : alerts[pk].recipient = "u2" /\ ~alerts[pk].is_read

\* C24: in the view layer mark-one-read, mark-all-read and the detail view
\* on a notification that is already read change neither is_read nor read_at.
C24_ViewReadAgainIsNoOp ==
    /\ (/\ last.op \in {"MarkNotificationReadView_post", "get_object"}
        /\ last.code = 200
        /\ last.old[last.pk].is_read) =>
          /\ alerts[last.pk].is_read = last.old[last.pk].is_read
          /\ alerts[last.pk].read_at = last.old[last.pk].read_at
    /\ AfterCall("MarkAllReadView_post") =>
          \A pk \in Pks : last.old[pk].is_read => alerts[pk] = last.old[pk]

\* C26: in the view layer is_read goes from False to True only through a
\* request of the notification's own recipient.
C26_OnlyRecipientMarksRead ==
    [][\A pk \in Pks :
         (~alerts[pk].is_read /\ alerts'[pk].is_read) => last'.user = alerts[pk].recipient]_vars

\* the step was a mark_notification_read message handled on session s
MarkMessage(s) ==
    \/ last'.op = "mark_as_read" /\ last'.via = s
    \/ last'.op = "receive" /\ "notification_id" \in DOMAIN last' /\ last'.session = s

\* C25: a mark_notification_read(id) message on a session bound to user u
\* changes a row only if the row's recipient is u; when the id does not
\* exist or is the id of another user's row, no row changes and nothing is
\* raised (the session stays open).
C25_SessionMarksOwnRowsOnly ==
    [][\A s \in Sessions :
         MarkMessage(s) =>
            /\ DOMAIN notifications' = Ids
            /\ session_user'[s] = session_user[s]
            /\ IF last'.op = "mark_as_read"
               THEN /\ notifications[last'.nid].recipient = session_user[s]
                    /\ \A n \in Ids \ {last'.nid} : notifications'[n] = notifications[n]
               ELSE /\ notifications' = notifications
                    /\ ~\E n \in Ids :
                          /\ notifications[n].notification_id =
                                NotificationId(last'.notification_id)
                          /\ notifications[n].recipient = session_user[s]]_vars

\* C25 witness: the session of one user has asked for the unread row of
\* another user, which is still unread
C25_Witness ==
    /\ last.op = "receive"
    /\ "notification_id" \in DOMAIN last
    /\ session_user[last.session] # NoUser
    /\ \E n \in Ids :
          /\ notifications[n].notification_id = NotificationId(last.notification_id)
          /\ notifications[n].recipient # session_user[last.session]
          /\ notifications[n].status = "SENT"

\* C27: when two workers, each with its own loaded copy of a row, call status
\* operations concurrently, no update is lost: every mark_as_failed call
\* raises the stored retry_count by one (so that it equals the number of
\* calls), and a worker's mark_as_failed or mark_as_sent on a stale copy
\* never overwrites a READ status the recipient has written in between.
C27_NoLostUpdate ==
    [][\A w \in Workers :
         (last'.op \in {"mark_as_failed", "mark_as_sent"} /\ last'.via = w) =>
            LET n == last'.nid
            IN  /\ last'.op = "mark_as_failed" =>
                      notifications'[n].retry_count = notifications[n].retry_count + 1
                /\ notifications[n].status = "READ" => notifications'[n].status = "READ"]_vars

\* C27, the second half alone: a stale worker write leaves READ in place
C27_ReadSurvivesStaleWrite ==
    [][\A w \in Workers :
         (/\ last'.op \in {"mark_as_failed", "mark_as_sent"}
          /\ last'.via = w
          /\ workers[w].instance.status # "READ"
          /\ notifications[last'.nid].status = "READ")
            => notifications'[last'.nid].status = "READ"]_vars

\* the step handled a text message of the client on connection s
Received(s) ==
    \/ last'.op \in {"receive", "receive_raised", "get_unread_count"} /\ last'.session = s
    \/ last'.op = "mark_as_read" /\ last'.via = s

\* C28: every text message of a client is handled without an unhandled
\* exception and without closing the session; text that is not valid JSON
\* is answered by an error frame and changes no row, and valid JSON that is
\* not an object, or has an unknown or no type, changes no row.
C28_EveryMessageHandled ==
    [][\A s \in Connections :
         Received(s) =>
            /\ last'.op # "receive_raised"
            /\ session_user'[s] = session_user[s]
            /\ s \in groups'[GroupName(session_user[s])]
            /\ last'.op # "mark_as_read" => notifications' = notifications
            /\ (last_frame'[s] # last_frame[s] /\ last'.op = "receive") =>
                  last_frame'[s] = [type |-> "error", message |-> "Invalid JSON format"]]_vars

\* the last call left the fields in fs of its row as they were
Kept(fs) == \A f \in fs : Row[f] = last.old[f]

\* the fields of a Notification row
Fields == DOMAIN NewNotification("u1", DefaultMaxRetries)

\* C29: mark_as_sent, mark_as_delivered and mark_as_read change only status
\* and their own timestamp (retry_count, next_retry_at, error_message, the
\* other two timestamps, recipient, channel, title and message stay);
\* mark_as_failed leaves sent_at, delivered_at, read_at, recipient, channel,
\* title and message as they were.
C29_StatusMethodsFrame ==
    /\ AfterCall("mark_as_sent") => Kept(Fields \ {"status", "sent_at"})
    /\ AfterCall("mark_as_delivered") => Kept(Fields \ {"status", "delivered_at"})
    /\ AfterCall("mark_as_read") => Kept(Fields \ {"status", "read_at"})
    /\ AfterCall("mark_as_failed") =>
          Kept(Fields \ {"status", "error_message", "retry_count", "next_retry_at"})

\* C29 witness: a row that failed once and was sent at minute 0 is delivered
\* at minute 1 and keeps its retry fields and sent_at
C29_Witness ==
    /\ AfterCall("mark_as_delivered")
    /\ last.old.retry_count = 1
    /\ last.old.next_retry_at # NULL
    /\ last.old.error_message # ""
    /\ last.old.sent_at = 0
    /\ Row.delivered_at = 1
    /\ Row.sent_at = 0
    /\ Row.retry_count = 1

\* the rows of the next state that the step created or changed
Touched == {n \in DOMAIN notifications' : n \notin Ids \/ notifications'[n] # notifications[n]}

\* C30: a successful mark_notification_read on an unread row (PENDING, SENT
\* or DELIVERED) lowers the unread count of its recipient by exactly one,
\* repeating it lowers the count no further, and no operation on the rows of
\* one user changes the unread count of another user.
C30_UnreadCountSteps ==
    [][/\ \A s \in Sessions, u \in Users, n \in Ids :
            (/\ last'.op = "mark_as_read" /\ last'.via = s /\ last'.nid = n
             /\ notifications[n].recipient = u) =>
               /\ notifications[n].status \in {"PENDING", "SENT", "DELIVERED"} =>
                     get_unread_count(u)' = get_unread_count(u) - 1
               /\ notifications[n].status = "READ" =>
                     get_unread_count(u)' = get_unread_count(u)
       /\ \A u \in Users :
            (\A n \in Touched : notifications'[n].recipient # u) =>
               get_unread_count(u)' = get_unread_count(u)]_vars

\* C30 witness: a session has marked the last unread row of its user read,
\* a DELIVERED one, while the other user still has an unread row
C30_Witness ==
    /\ AfterCall("mark_as_read")
    /\ last.via \in Sessions
    /\ last.old.status = "DELIVERED"
    /\ get_unread_count(Row.recipient) = 0
    /\ \E u \in Users : u # Row.recipient /\ get_unread_count(u) = 1
====
